---- MODULE Spec2Model ----
(***************************************************************************)
(* A model of run_tc.py: the fine-tuning script's main(), run by the       *)
(* processes (ranks) of one launch.  The state is the configuration, the   *)
(* input files, the shared output directory and each rank's locals; there  *)
(* is one action per block of main().  The external libraries (datasets,   *)
(* transformers, scikit-learn) appear as the operators the script calls,   *)
(* computed as those libraries compute them; what the trained model        *)
(* outputs is an input drawn in Init.                                      *)
(***************************************************************************)
EXTENDS Integers, Sequences, FiniteSets, TLC

\* ------------------------------------------------------------------ bounds
NumRanks == 2
MaxLabels == 2
MaxRows == 2
MaxScore == 2

\* Label names are single letters, ordered as Python orders the strings.
\* The registry draws its names from the first MaxLabels letters; "z" is a
\* name no registry holds.
Alphabet == <<"a", "b", "c", "d", "z">>
UnknownName == "z"
RegistryNames == {Alphabet[i] : i \in 1..MaxLabels}
Names == RegistryNames \cup {UnknownName}

None == "None"
SINGLE == "single_label_classification"
MULTI == "multi_label_classification"

\* ----------------------------------------------------------------- helpers
Range(s) == {s[i] : i \in DOMAIN s}

RECURSIVE Gcd(_, _)
Gcd(a, b) == IF b = 0 THEN a ELSE Gcd(b, a % b)

\* A float that is a quotient of counts, kept exact as <<numerator, denominator>>
\* in lowest terms.
Rat(n, d) == LET g == Gcd(n, d) IN IF n = 0 THEN <<0, 1>> ELSE <<n \div g, d \div g>>
RatAdd(x, y) == Rat(x[1] * y[2] + y[1] * x[2], x[2] * y[2])
RatMul(x, y) == Rat(x[1] * y[1], x[2] * y[2])
\* a / b with scikit-learn's zero_division: 0 when b is 0.
Divide(n, d) == IF d = 0 THEN <<0, 1>> ELSE Rat(n, d)

RECURSIVE SumOver(_, _)
SumOver(f, S) == IF S = {} THEN 0
                 ELSE LET x == CHOOSE y \in S : TRUE IN f[x] + SumOver(f, S \ {x})

RECURSIVE RatSumOver(_, _)
RatSumOver(f, S) == IF S = {} THEN <<0, 1>>
                    ELSE LET x == CHOOSE y \in S : TRUE
                         IN RatAdd(f[x], RatSumOver(f, S \ {x}))

\* Python's sorted() on a set of label names / of integers.
AlphaIndex(n) == CHOOSE i \in DOMAIN Alphabet : Alphabet[i] = n
SortedNames(S) ==
    IF S = {} THEN <<>>
    ELSE CHOOSE s \in [1..Cardinality(S) -> S] :
            /\ Range(s) = S
            /\ \A i, j \in DOMAIN s : i < j => AlphaIndex(s[i]) < AlphaIndex(s[j])
SortedInts(S) ==
    IF S = {} THEN <<>>
    ELSE CHOOSE s \in [1..Cardinality(S) -> S] :
            /\ Range(s) = S
            /\ \A i, j \in DOMAIN s : i < j => s[i] < s[j]

\* Sequences over S of length lo..hi.
SeqsOf(S, lo, hi) == UNION {[1..n -> S] : n \in lo..hi}
\* ------------------------------------------------- data/labels.json, loaded
\* The JSON text holds every id as a string; Python's int() reads it.
IdStrs == {ToString(i) : i \in 0..(MaxLabels - 1)}
StrToInt(k) == CHOOSE i \in 0..(MaxLabels - 1) : ToString(i) = k

\* A labels.json: "label2id" as the object's items in file order (a name, an
\* id string), "id2label" as the object (id string -> name).
LabelFiles ==
    {[label2id |-> l2i, id2label |-> i2l] :
        l2i \in {s \in SeqsOf(RegistryNames \X IdStrs, 1, MaxLabels) :
                    \A i, j \in DOMAIN s : i # j => s[i][1] # s[j][1]},
        i2l \in UNION {[K -> RegistryNames] : K \in SUBSET IdStrs}}

\* label_dict['id2label'] = {int(k): v for k, v in ...}
LoadId2Label(file) ==
    [i \in {StrToInt(k) : k \in DOMAIN file.id2label} |-> file.id2label[ToString(i)]]

\* label_dict['label2id'] = {k: int(v) for k, v in ...}
LoadLabel2Id(file) ==
    [n \in {file.label2id[i][1] : i \in DOMAIN file.label2id} |->
        StrToInt(file.label2id[CHOOSE i \in DOMAIN file.label2id :
                                  file.label2id[i][1] = n][2])]

\* label_list = list(label_dict["label2id"].keys()): the names in file order.
LoadLabelList(file) == [i \in DOMAIN file.label2id |-> file.label2id[i][1]]

\* MultiLabelBinarizer().fit([label_list]).classes_: the sorted distinct names.
MlbFit(label_list) == SortedNames(Range(label_list))

\* mlb.transform([labels])[0]: one column per class of classes_, 1 where the
\* class is among the labels; a label that is no class raises nothing (scikit-
\* learn warns "unknown class(es) will be ignored").
MlbTransform(classes, labels) ==
    [i \in DOMAIN classes |-> IF classes[i] \in Range(labels) THEN 1 ELSE 0]

\* mlb.inverse_transform(np.array([pred]))[0]: tuple(classes_.compress(pred)).
RECURSIVE Compress(_, _)
Compress(classes, ind) ==
    IF classes = <<>> THEN <<>>
    ELSE (IF Head(ind) THEN <<Head(classes)>> ELSE <<>>)
            \o Compress(Tail(classes), Tail(ind))
MlbInverseTransformComplement(classes, pred) ==
    Compress(classes, [i \in DOMAIN pred |-> ~pred[i]])
MlbInverseTransform(classes, pred) == Compress(classes, pred)

\* ------------------------------------------------------------ the label cell
\* A CSV label cell is its text, as tokens: a bare name is <<"a">>, a printed
\* list is <<"[", "a", ",", "b", "]">>.
RECURSIVE Join(_)
Join(names) ==
    IF names = <<>> THEN <<>>
    ELSE IF Len(names) = 1 THEN <<names[1]>>
    ELSE <<names[1], ",">> \o Join(Tail(names))
PrintList(names) == <<"[">> \o Join(names) \o <<"]">>
PrintTuple(names) ==
    <<"(">> \o Join(names) \o (IF Len(names) = 1 THEN <<",">> ELSE <<>>) \o <<")">>

Punctuation == {"[", "]", "(", ")", ","}

\* eval(labels) of a cell: the list of names of a list display (a trailing
\* comma is allowed); any other text raises.
IsListDisplay(cell) ==
    /\ Len(cell) >= 2
    /\ cell[1] = "["
    /\ cell[Len(cell)] = "]"
    /\ \A i \in 2..(Len(cell) - 1) :
          IF i % 2 = 0 THEN cell[i] \notin Punctuation ELSE cell[i] = ","
EvalList(cell) ==
    LET k == (Len(cell) - 1) \div 2
    IN [i \in 1..k |-> cell[2 * i]]

\* One row of preprocess_function: the encoded target, or the exception.
Raised(e) == [raised |-> e]
IsRaised(v) == DOMAIN v = {"raised"}
Value(x) == [value |-> x]

EncodeRow(problem_type, label2id, classes, cell) ==
    IF problem_type = MULTI
    THEN IF IsListDisplay(cell)
         THEN Value(MlbTransform(classes, EvalList(cell)))
         ELSE Raised("SyntaxError")
    ELSE IF Len(cell) = 1 /\ cell[1] \in DOMAIN label2id
         THEN Value(label2id[cell[1]])
         ELSE Raised("KeyError")

\* The list comprehension over the batch: the first row that raises aborts it.
PreprocessFunction(problem_type, label2id, classes, batch) ==
    LET enc == [i \in DOMAIN batch |->
                   EncodeRow(problem_type, label2id, classes, batch[i])]
    IN IF \E i \in DOMAIN batch : IsRaised(enc[i])
       THEN enc[CHOOSE i \in DOMAIN batch :
                    IsRaised(enc[i]) /\ \A j \in 1..(i - 1) : ~IsRaised(enc[j])]
       ELSE Value([i \in DOMAIN batch |-> enc[i].value])

\* ------------------------------------------------ reducing the model output
\* labels_to_bools: [tl == 1 for tl in labels], each tl a row of the matrix.
labels_to_bools(labels) ==
    [i \in DOMAIN labels |-> [j \in DOMAIN labels[i] |-> labels[i][j] = 1]]

\* preds_to_bools: [pl > model_args.prediction_threshold for pl in preds].
preds_to_bools_ge(threshold, preds) ==
    [i \in DOMAIN preds |-> [j \in DOMAIN preds[i] |-> preds[i][j] >= threshold]]
preds_to_bools(threshold, preds) ==
    [i \in DOMAIN preds |-> [j \in DOMAIN preds[i] |-> preds[i][j] > threshold]]

\* np.argmax(preds, axis=1): per row, the 0-based index of the first maximum.
ArgMaxRow(row) ==
    (CHOOSE j \in DOMAIN row :
        /\ \A k \in DOMAIN row : row[k] <= row[j]
        /\ \A k \in 1..(j - 1) : row[k] < row[j]) - 1
ArgMax(preds) == [i \in DOMAIN preds |-> ArgMaxRow(preds[i])]

\* ------------------------------------------------------ scikit-learn metrics
\* type_of_target: a boolean matrix of two or more columns is a multilabel
\* indicator; one of a single column is read as a binary (class-valued) vector.
IsMultilabel(problem_type, y) == problem_type = MULTI /\ Len(y[1]) > 1
AsClasses(problem_type, y) ==
    IF problem_type = MULTI
    THEN [i \in DOMAIN y |-> IF y[i][1] THEN 1 ELSE 0]
    ELSE y

\* unique_labels(y_true, y_pred), sorted.
UniqueLabels(y_true, y_pred) == SortedInts(Range(y_true) \cup Range(y_pred))

\* One one-vs-rest decision table: T the examples that are gold-positive, P the
\* examples predicted positive, among n examples.
Counts(T, P, n) ==
    [tp |-> Cardinality(T \cap P), fp |-> Cardinality(P \ T),
     fn |-> Cardinality(T \ P), tn |-> n - Cardinality(T \cup P)]

\* The per-class decision tables: per column of a multilabel indicator, else per
\* class value present in gold or predictions.
BinaryCounts(problem_type, y_true, y_pred) ==
    IF IsMultilabel(problem_type, y_true)
    THEN [j \in DOMAIN y_true[1] |->
            Counts({i \in DOMAIN y_true : y_true[i][j]},
                   {i \in DOMAIN y_pred : y_pred[i][j]}, Len(y_true))]
    ELSE LET t == AsClasses(problem_type, y_true)
             q == AsClasses(problem_type, y_pred)
             cls == UniqueLabels(t, q)
         IN [k \in DOMAIN cls |->
                Counts({i \in DOMAIN t : t[i] = cls[k]},
                       {i \in DOMAIN q : q[i] = cls[k]}, Len(t))]

\* accuracy_score: the fraction of samples predicted exactly; for a multilabel
\* indicator a sample is its whole row (subset accuracy).
AccuracyPerPair(problem_type, y_true, y_pred) ==
    IF IsMultilabel(problem_type, y_true)
    THEN Rat(Cardinality({ij \in (DOMAIN y_true) \X (DOMAIN y_true[1]) :
                             y_true[ij[1]][ij[2]] = y_pred[ij[1]][ij[2]]}),
             Len(y_true) * Len(y_true[1]))
    ELSE Rat(Cardinality({i \in DOMAIN y_true : y_true[i] = y_pred[i]}), Len(y_true))
AccuracyScore(problem_type, y_true, y_pred) ==
    Rat(Cardinality({i \in DOMAIN y_true : y_true[i] = y_pred[i]}), Len(y_true))

\* Per-class precision, recall and F-score of one decision table.
Precision(c) == Divide(c.tp, c.tp + c.fp)
Recall(c) == Divide(c.tp, c.tp + c.fn)
FScore(c) ==
    LET p == Precision(c)
        r == Recall(c)
        d == RatAdd(p, r)
    IN IF d[1] = 0 THEN <<0, 1>>
       ELSE Rat(2 * p[1] * r[1] * d[2], p[2] * r[2] * d[1])
Support(c) == c.tp + c.fn

PrecisionOf(counts) == [k \in DOMAIN counts |-> Precision(counts[k])]
RecallOf(counts) == [k \in DOMAIN counts |-> Recall(counts[k])]
FScoreOf(counts) == [k \in DOMAIN counts |-> FScore(counts[k])]
SupportOf(counts) == [k \in DOMAIN counts |-> Support(counts[k])]

\* precision_recall_fscore_support(..., average='weighted'): the per-class
\* scores averaged with the class supports as weights (0 when no support).
WeightedAverage(counts, scores) ==
    LET W == SumOver(SupportOf(counts), DOMAIN counts)
        S == RatSumOver([k \in DOMAIN counts |->
                            RatMul(<<Support(counts[k]), 1>>, scores[k])],
                        DOMAIN counts)
    IN IF W = 0 THEN <<0, 1>> ELSE RatMul(S, <<1, W>>)

\* compute_metrics(p), given the problem type and the threshold it closes over.
compute_metrics(problem_type, threshold, label_ids, predictions) ==
    LET labels == IF problem_type = MULTI THEN labels_to_bools(label_ids) ELSE label_ids
        preds == IF problem_type = MULTI THEN preds_to_bools(threshold, predictions)
                 ELSE ArgMax(predictions)
        counts == BinaryCounts(problem_type, labels, preds)
    IN [accuracy |-> AccuracyScore(problem_type, labels, preds),
        precision |-> WeightedAverage(counts, PrecisionOf(counts)),
        recall |-> WeightedAverage(counts, RecallOf(counts)),
        f1_score |-> WeightedAverage(counts, FScoreOf(counts))]

\* confusion_matrix(labels, preds): rows gold, columns predicted, over the
\* classes present.
ConfusionMatrix(y_true, y_pred) ==
    LET cls == UniqueLabels(y_true, y_pred)
    IN [a \in DOMAIN cls |-> [b \in DOMAIN cls |->
          Cardinality({i \in DOMAIN y_true : y_true[i] = cls[a] /\ y_pred[i] = cls[b]})]]

\* multilabel_confusion_matrix(labels, preds): one [[tn, fp], [fn, tp]] per class.
MultilabelConfusionMatrix(problem_type, y_true, y_pred) ==
    LET counts == BinaryCounts(problem_type, y_true, y_pred)
    IN [k \in DOMAIN counts |->
          <<<<counts[k].tn, counts[k].fp>>, <<counts[k].fn, counts[k].tp>>>>]

\* classification_report(labels, preds, target_names=label_list): one row per
\* class, named by position in target_names, then the weighted average; raises
\* when the number of classes is not the number of names.
ClassificationReport(problem_type, y_true, y_pred, target_names) ==
    LET counts == BinaryCounts(problem_type, y_true, y_pred)
    IN IF Len(counts) # Len(target_names)
       THEN Raised("ValueError")
       ELSE Value([k \in DOMAIN counts |->
                     [name |-> target_names[k],
                      precision |-> Precision(counts[k]),
                      recall |-> Recall(counts[k]),
                      f1_score |-> FScore(counts[k]),
                      support |-> Support(counts[k])]]
                  \o <<[name |-> "weighted avg",
                        precision |-> WeightedAverage(counts, PrecisionOf(counts)),
                        recall |-> WeightedAverage(counts, RecallOf(counts)),
                        f1_score |-> WeightedAverage(counts, FScoreOf(counts)),
                        support |-> SumOver(SupportOf(counts), DOMAIN counts)]>>)

\* ------------------------------------------------------------------- state
VARIABLES
    \* the launch: configuration and input files (never written by the script)
    training_args,      \* do_train, do_eval, do_predict, overwrite_output_dir, resume_from_checkpoint
    model_args,         \* problem_type, prediction_threshold
    world_size,         \* the number of processes of the launch
    labels_json,        \* data/labels.json
    csv,                \* the label column of data/train.csv, val.csv, test.csv
    model_output,       \* the scores the model gives on val.csv and on test.csv
    \* the filesystem the ranks share
    output_dir,         \* training_args.output_dir: exists, entries
    predictions_txt,    \* the lines of predictions.txt
    prediction_report_txt, \* the content of prediction_report.txt
    opened,             \* per output file, the ranks that opened it for writing
    \* each rank's locals
    pc, last_checkpoint, label_dict, label_list, mlb, model, datasets,
    checkpoint, metrics, preds, labels, raised, phases

inputs == <<training_args, model_args, world_size, labels_json, csv, model_output>>
shared == <<output_dir, predictions_txt, prediction_report_txt, opened>>
locals == <<pc, last_checkpoint, label_dict, label_list, mlb, model, datasets,
            checkpoint, metrics, preds, labels, raised, phases>>
vars == <<inputs, shared, locals>>

Ranks == 0..(NumRanks - 1)
Live == 0..(world_size - 1)

\* trainer.is_world_process_zero(): the process of index 0 of the launch.
is_world_process_zero_any(r) == TRUE
is_world_process_zero(r) == r = 0

\* get_last_checkpoint(folder): the checkpoint-<n> entry of the largest n, or None.
Checkpoints == <<"checkpoint-1", "checkpoint-2">>
get_last_checkpoint(entries) ==
    IF \E i \in DOMAIN Checkpoints : Checkpoints[i] \in entries
    THEN Checkpoints[CHOOSE i \in DOMAIN Checkpoints :
                        /\ Checkpoints[i] \in entries
                        /\ \A j \in DOMAIN Checkpoints :
                              Checkpoints[j] \in entries => j <= i]
    ELSE None

\* The blocks of main(), in order.
PcOrder == <<"start", "load_data", "labels", "model", "map_train", "map_eval",
             "map_predict", "trainer", "train", "eval", "predict", "write", "done">>
StageNo(p) == IF p = "failed" THEN 0 ELSE CHOOSE i \in DOMAIN PcOrder : PcOrder[i] = p
\* The trainer's train, evaluate and predict are collective over the ranks of
\* the launch: one returns once every rank has entered it.
AllArrived(stage) == \A q \in Live : StageNo(pc[q]) >= StageNo(stage)

NoMetrics == [accuracy |-> <<0, 1>>, precision |-> <<0, 1>>,
              recall |-> <<0, 1>>, f1_score |-> <<0, 1>>]
NoReport == [title |-> "", matrices |-> <<>>, report |-> <<>>]

\* ------------------------------------------------------------------ inputs
Flags == [do_train : BOOLEAN, do_eval : BOOLEAN, do_predict : BOOLEAN,
          overwrite_output_dir : BOOLEAN,
          resume_from_checkpoint : {None, "checkpoint-arg"}]
PredictOnly == [do_train |-> FALSE, do_eval |-> FALSE, do_predict |-> TRUE,
                overwrite_output_dir |-> FALSE, resume_from_checkpoint |-> None]

DirStates ==
    {[exists |-> FALSE, entries |-> {}]} \cup
    {[exists |-> TRUE, entries |-> E] :
        E \in SUBSET {"checkpoint-1", "checkpoint-2", "train.log"}}

\* The registry file whose names are in alphabetical order with ids 0, 1, ...
DefaultLabels ==
    [label2id |-> [i \in 1..MaxLabels |-> <<Alphabet[i], ToString(i - 1)>>],
     id2label |-> [k \in IdStrs |-> Alphabet[StrToInt(k) + 1]]]
\* The same registry written in the reverse order.
ReversedLabels ==
    [label2id |-> [i \in 1..MaxLabels |->
                      <<Alphabet[MaxLabels + 1 - i], ToString(MaxLabels - i)>>],
     id2label |-> [k \in IdStrs |-> Alphabet[StrToInt(k) + 1]]]

\* Label cells: a bare name, a printed list of up to MaxLabels names, or a
\* list that was cut short.
BareCells(N) == {<<n>> : n \in N}
ListCells(N) == {PrintList(s) : s \in SeqsOf(N, 0, MaxLabels)}
MalformedCells == {<<"[", Alphabet[1]>>}
\* The cells a dataset of the problem type holds when it is well-formed.
GoodCells(problem_type, file) ==
    LET N == Range(LoadLabelList(file))
    IN IF problem_type = MULTI
       THEN {PrintList(SortedNames(S)) : S \in SUBSET N}
       ELSE BareCells(N)
DefaultCell(problem_type) ==
    IF problem_type = MULTI THEN PrintList(<<Alphabet[1]>>) ELSE <<Alphabet[1]>>

\* Score matrices of n rows and w columns.
Scores(n, w, top) == [1..n -> [1..w -> 0..top]]

\* The launches enumerated.  The input space is a product too large to walk
\* whole, so it is walked in three slices, each wide in some inputs and fixed
\* in the others.
\* 1: every flag combination, directory state and number of ranks.
InitControl ==
    /\ training_args \in Flags
    /\ world_size \in 1..NumRanks
    /\ output_dir \in DirStates
    /\ model_args \in [problem_type : {SINGLE, MULTI}, prediction_threshold : {0}]
    /\ labels_json = DefaultLabels
    /\ csv = [train |-> <<DefaultCell(model_args.problem_type)>>,
              val |-> <<DefaultCell(model_args.problem_type)>>,
              test |-> <<DefaultCell(model_args.problem_type)>>]
    /\ model_output = [eval |-> [i \in 1..1 |-> [j \in 1..MaxLabels |-> 0]],
                       predict |-> [i \in 1..1 |-> [j \in 1..MaxLabels |-> 0]]]
\* 2: every registry file and every label cell, one test row.
InitLabels ==
    /\ training_args = PredictOnly
    /\ world_size = 1
    /\ output_dir = [exists |-> FALSE, entries |-> {}]
    /\ model_args \in [problem_type : {SINGLE, MULTI}, prediction_threshold : {0}]
    /\ labels_json \in LabelFiles
    /\ \E cell \in BareCells(Names) \cup ListCells(Names) \cup MalformedCells :
          csv = [train |-> <<DefaultCell(model_args.problem_type)>>,
                 val |-> <<DefaultCell(model_args.problem_type)>>,
                 test |-> <<cell>>]
    /\ \E sc \in Scores(1, Len(labels_json.label2id), 1) :
          model_output = [eval |-> <<>>, predict |-> sc]
\* 3: every gold matrix, score matrix and threshold, up to MaxRows test rows.
InitMetrics ==
    /\ training_args = PredictOnly
    /\ world_size = 1
    /\ output_dir = [exists |-> FALSE, entries |-> {}]
    /\ model_args \in [problem_type : {SINGLE, MULTI}, prediction_threshold : {0, 1}]
    /\ labels_json \in {DefaultLabels, ReversedLabels}
    /\ \E rows \in SeqsOf(GoodCells(model_args.problem_type, labels_json), 1, MaxRows) :
          csv = [train |-> <<DefaultCell(model_args.problem_type)>>,
                 val |-> <<DefaultCell(model_args.problem_type)>>,
                 test |-> rows]
    /\ \E sc \in Scores(Len(csv.test), Len(labels_json.label2id), MaxScore) :
          model_output = [eval |-> <<>>, predict |-> sc]

InitState ==
    /\ predictions_txt = <<>>
    /\ prediction_report_txt = NoReport
    /\ opened = [predictions |-> {}, report |-> {}]
    /\ pc = [r \in Ranks |-> IF r \in Live THEN "start" ELSE "off"]
    /\ last_checkpoint = [r \in Ranks |-> None]
    /\ label_dict = [r \in Ranks |-> [id2label |-> <<>>, label2id |-> <<>>]]
    /\ label_list = [r \in Ranks |-> <<>>]
    /\ mlb = [r \in Ranks |-> <<>>]
    /\ model = [r \in Ranks |-> [loaded |-> FALSE, num_labels |-> 0]]
    /\ datasets = [r \in Ranks |-> [train |-> <<>>, eval |-> <<>>, predict |-> <<>>]]
    /\ checkpoint = [r \in Ranks |-> None]
    /\ metrics = [r \in Ranks |-> [eval |-> NoMetrics, predict |-> NoMetrics]]
    /\ preds = [r \in Ranks |-> <<>>]
    /\ labels = [r \in Ranks |-> <<>>]
    /\ raised = [r \in Ranks |-> None]
    /\ phases = [r \in Ranks |-> <<>>]

Init == (InitControl \/ InitLabels \/ InitMetrics) /\ InitState

\* ----------------------------------------------------------------- actions
Goto(r, p) == pc' = [pc EXCEPT ![r] = p]
Raise(r, e) == /\ pc' = [pc EXCEPT ![r] = "failed"]
               /\ raised' = [raised EXCEPT ![r] = e]
Log(r, phase) == phases' = [phases EXCEPT ![r] = Append(@, phase)]

\* What the trainer's save_model / save_metrics leave in the output directory;
\* only the world's process zero saves.
Saved(r, names) ==
    IF is_world_process_zero(r)
    THEN [exists |-> TRUE, entries |-> output_dir.entries \cup names]
    ELSE output_dir

\* Lines 189-202: detecting the last checkpoint.
MustNotOverwriteAlways(entries, last) == entries # {}
MustNotOverwrite(entries, last) == last = None /\ entries # {}
Startup(r) ==
    /\ pc[r] = "start"
    /\ LET guarded == /\ output_dir.exists
                      /\ training_args.do_train
                      /\ ~training_args.overwrite_output_dir
           last == IF guarded THEN get_last_checkpoint(output_dir.entries) ELSE None
       IN IF guarded /\ MustNotOverwrite(output_dir.entries, last)
          THEN /\ Raise(r, "ValueError")
               /\ UNCHANGED last_checkpoint
          ELSE /\ Goto(r, "load_data")
               /\ last_checkpoint' = [last_checkpoint EXCEPT ![r] = last]
               /\ UNCHANGED raised
    /\ UNCHANGED <<inputs, shared, label_dict, label_list, mlb, model, datasets,
                   checkpoint, metrics, preds, labels, phases>>

\* Lines 239-246: load_dataset of each split that is asked for.
LoadDatasets(r) ==
    /\ pc[r] = "load_data"
    /\ datasets' = [datasets EXCEPT ![r] =
          [train |-> IF training_args.do_train THEN csv.train ELSE <<>>,
           eval |-> IF training_args.do_eval THEN csv.val ELSE <<>>,
           predict |-> IF training_args.do_predict THEN csv.test ELSE <<>>]]
    /\ Goto(r, "labels")
    /\ UNCHANGED <<inputs, shared, last_checkpoint, label_dict, label_list, mlb,
                   model, checkpoint, metrics, preds, labels, raised, phases>>

\* Lines 248-257: the label registry and, for multi-label, the binarizer.
LoadLabels(r) ==
    /\ pc[r] = "labels"
    /\ label_dict' = [label_dict EXCEPT ![r] =
          [id2label |-> LoadId2Label(labels_json),
           label2id |-> LoadLabel2Id(labels_json)]]
    /\ label_list' = [label_list EXCEPT ![r] = LoadLabelList(labels_json)]
    /\ mlb' = [mlb EXCEPT ![r] =
          IF model_args.problem_type = MULTI
          THEN MlbFit(LoadLabelList(labels_json)) ELSE <<>>]
    /\ Goto(r, "model")
    /\ UNCHANGED <<inputs, shared, last_checkpoint, model, datasets, checkpoint,
                   metrics, preds, labels, raised, phases>>

\* Lines 259-288: config, tokenizer and model, with num_labels outputs.
LoadModel(r) ==
    /\ pc[r] = "model"
    /\ model' = [model EXCEPT ![r] = [loaded |-> TRUE, num_labels |-> Len(label_list[r])]]
    /\ Goto(r, "map_train")
    /\ UNCHANGED <<inputs, shared, last_checkpoint, label_dict, label_list, mlb,
                   datasets, checkpoint, metrics, preds, labels, raised, phases>>

\* Lines 310-341: dataset.map(preprocess_function) of one split.
Map(r, at, enabled, split, next) ==
    /\ pc[r] = at
    /\ IF enabled
       THEN LET enc == PreprocessFunction(model_args.problem_type,
                                          label_dict[r].label2id, mlb[r],
                                          datasets[r][split])
            IN IF IsRaised(enc)
               THEN /\ Raise(r, enc.raised)
                    /\ UNCHANGED datasets
               ELSE /\ datasets' = [datasets EXCEPT ![r][split] = enc.value]
                    /\ Goto(r, next)
                    /\ UNCHANGED raised
       ELSE /\ Goto(r, next)
            /\ UNCHANGED <<datasets, raised>>
    /\ UNCHANGED <<inputs, shared, last_checkpoint, label_dict, label_list, mlb,
                   model, checkpoint, metrics, preds, labels, phases>>

MapTrain(r) == Map(r, "map_train", training_args.do_train, "train", "map_eval")
MapEval(r) == Map(r, "map_eval", training_args.do_eval, "eval", "map_predict")
MapPredict(r) == Map(r, "map_predict", training_args.do_predict, "predict", "trainer")

\* Lines 379-389: Trainer(...); process zero makes the output directory.
InitTrainer(r) ==
    /\ pc[r] = "trainer"
    /\ output_dir' = Saved(r, {})
    /\ Goto(r, "train")
    /\ UNCHANGED <<inputs, predictions_txt, prediction_report_txt, opened,
                   last_checkpoint, label_dict, label_list, mlb, model, datasets,
                   checkpoint, metrics, preds, labels, raised, phases>>

\* Lines 391-409: training, from the checkpoint chosen.
ChooseCheckpointLastFirst(resume, last) ==
    IF last # None THEN last
    ELSE IF resume # None THEN resume
    ELSE None
ChooseCheckpoint(resume, last) ==
    IF resume # None THEN resume
    ELSE IF last # None THEN last
    ELSE None
Train(r) ==
    /\ pc[r] = "train"
    /\ IF training_args.do_train
       THEN /\ AllArrived("train")
            /\ checkpoint' = [checkpoint EXCEPT ![r] =
                  ChooseCheckpoint(training_args.resume_from_checkpoint,
                                   last_checkpoint[r])]
            /\ output_dir' = Saved(r, {"pytorch_model.bin", "train_results.json"})
            /\ Log(r, "train")
       ELSE UNCHANGED <<checkpoint, output_dir, phases>>
    /\ Goto(r, "eval")
    /\ UNCHANGED <<inputs, predictions_txt, prediction_report_txt, opened,
                   last_checkpoint, label_dict, label_list, mlb, model, datasets,
                   metrics, preds, labels, raised>>

\* Lines 411-420: evaluation.
Evaluate(r) ==
    /\ pc[r] = "eval"
    /\ IF training_args.do_eval
       THEN /\ AllArrived("eval")
            /\ metrics' = [metrics EXCEPT ![r].eval =
                  compute_metrics(model_args.problem_type,
                                  model_args.prediction_threshold,
                                  datasets[r].eval, model_output.eval)]
            /\ output_dir' = Saved(r, {"eval_results.json"})
            /\ Log(r, "eval")
       ELSE UNCHANGED <<metrics, output_dir, phases>>
    /\ Goto(r, "predict")
    /\ UNCHANGED <<inputs, predictions_txt, prediction_report_txt, opened,
                   last_checkpoint, label_dict, label_list, mlb, model, datasets,
                   checkpoint, preds, labels, raised>>

\* Lines 422-438: trainer.predict, then the reduction of its outputs.
Predict(r) ==
    /\ pc[r] = "predict"
    /\ IF training_args.do_predict
       THEN /\ AllArrived("predict")
            /\ metrics' = [metrics EXCEPT ![r].predict =
                  compute_metrics(model_args.problem_type,
                                  model_args.prediction_threshold,
                                  datasets[r].predict, model_output.predict)]
            /\ output_dir' = Saved(r, {"predict_results.json"})
            /\ preds' = [preds EXCEPT ![r] =
                  IF model_args.problem_type = MULTI
                  THEN preds_to_bools(model_args.prediction_threshold,
                                      model_output.predict)
                  ELSE ArgMax(model_output.predict)]
            /\ labels' = [labels EXCEPT ![r] =
                  IF model_args.problem_type = MULTI
                  THEN labels_to_bools(datasets[r].predict)
                  ELSE datasets[r].predict]
            /\ Log(r, "predict")
            /\ Goto(r, "write")
       ELSE /\ Goto(r, "done")
            /\ UNCHANGED <<metrics, output_dir, preds, labels, phases>>
    /\ UNCHANGED <<inputs, predictions_txt, prediction_report_txt, opened,
                   last_checkpoint, label_dict, label_list, mlb, model, datasets,
                   checkpoint, raised>>

\* Lines 445-450: the prediction field of one row, as printed by the f-string.
DecodeBareName(problem_type, id2label, classes, pred) ==
    IF problem_type = MULTI
    THEN Value(PrintTuple(MlbInverseTransform(classes, pred)))
    ELSE IF pred \in DOMAIN id2label
         THEN Value(<<id2label[pred]>>)
         ELSE Raised("KeyError")
Decode(problem_type, id2label, classes, pred) ==
    IF problem_type = MULTI
    THEN Value(PrintTuple(MlbInverseTransform(classes, pred)))
    ELSE IF pred \in DOMAIN id2label
         THEN Value(PrintList(<<id2label[pred]>>))
         ELSE Raised("KeyError")

Header == <<"index", <<"prediction">>>>

\* Lines 443-450: the lines the predictions writer leaves, and whether it got
\* through: the rows before the first one whose decoding raises.
PredictionLines(problem_type, id2label, classes, ps) ==
    LET dec == [i \in DOMAIN ps |-> Decode(problem_type, id2label, classes, ps[i])]
        bad == {i \in DOMAIN ps : IsRaised(dec[i])}
        stop == IF bad = {} THEN Len(ps) + 1
                ELSE CHOOSE i \in bad : \A j \in bad : i <= j
    IN [lines |-> <<Header>> \o [i \in 1..(stop - 1) |-> <<ToString(i - 1), dec[i].value>>],
        raised |-> IF bad = {} THEN None ELSE "KeyError"]

\* Lines 453-471: the content the report writer leaves, and whether it got through.
ReportContent(problem_type, names, gold, ps) ==
    LET matrices == IF problem_type = MULTI
                    THEN MultilabelConfusionMatrix(problem_type, gold, ps)
                    ELSE ConfusionMatrix(gold, ps)
        title == IF problem_type = MULTI THEN "Multilabel Confusion Matrix"
                 ELSE "Singlelabel Confusion Matrix"
        m == IF Len(matrices) <= Len(names) THEN Len(matrices) ELSE Len(names)
        written == [i \in 1..m |-> [name |-> names[i], matrix |-> matrices[i]]]
        report == ClassificationReport(problem_type, gold, ps, names)
    IN IF Len(matrices) > Len(names)
       THEN [content |-> [title |-> title, matrices |-> written, report |-> <<>>],
             raised |-> "IndexError"]
       ELSE IF IsRaised(report)
       THEN [content |-> [title |-> title, matrices |-> written, report |-> <<>>],
             raised |-> report.raised]
       ELSE [content |-> [title |-> title, matrices |-> written, report |-> report.value],
             raised |-> None]

\* Lines 439-471: the two output files, written by the coordinating process.
WriteOutputs(r) ==
    /\ pc[r] = "write"
    /\ IF is_world_process_zero(r)
       THEN LET p == PredictionLines(model_args.problem_type, label_dict[r].id2label,
                                     mlb[r], preds[r])
                q == ReportContent(model_args.problem_type, label_list[r],
                                   labels[r], preds[r])
            IN /\ predictions_txt' = p.lines
               /\ IF p.raised # None
                  THEN /\ opened' = [opened EXCEPT !.predictions = @ \cup {r}]
                       /\ output_dir' = [output_dir EXCEPT
                                            !.entries = @ \cup {"predictions.txt"}]
                       /\ UNCHANGED prediction_report_txt
                       /\ Raise(r, p.raised)
                       /\ Log(r, "write")
                  ELSE /\ opened' = [predictions |-> opened.predictions \cup {r},
                                     report |-> opened.report \cup {r}]
                       /\ output_dir' = [output_dir EXCEPT !.entries =
                              @ \cup {"predictions.txt", "prediction_report.txt"}]
                       /\ prediction_report_txt' = q.content
                       /\ Log(r, "write")
                       /\ IF q.raised # None
                          THEN Raise(r, q.raised)
                          ELSE Goto(r, "done") /\ UNCHANGED raised
       ELSE /\ Goto(r, "done")
            /\ UNCHANGED <<shared, raised, phases>>
    /\ UNCHANGED <<inputs, last_checkpoint, label_dict, label_list, mlb, model,
                   datasets, checkpoint, metrics, preds, labels>>

\* A rank outside the launch stays "off": no block's guard holds for it.
Next ==
    \E r \in Ranks :
        \/ Startup(r)
        \/ LoadDatasets(r)
        \/ LoadLabels(r)
        \/ LoadModel(r)
        \/ MapTrain(r)
        \/ MapEval(r)
        \/ MapPredict(r)
        \/ InitTrainer(r)
        \/ Train(r)
        \/ Evaluate(r)
        \/ Predict(r)
        \/ WriteOutputs(r)

Spec == Init /\ [][Next]_vars

\* ------------------------------------------------------------------ claims
Past(r, stage) == StageNo(pc[r]) > StageNo(stage)
Multi == model_args.problem_type = MULTI
Single == model_args.problem_type = SINGLE
Registry(r) == DOMAIN label_dict[r].label2id

\* The label names a cell's label field holds: the cell itself in single-label
\* mode, the words of the list in multi-label mode.
FieldNames(cell) == IF Multi THEN {cell[i] : i \in DOMAIN cell} \ Punctuation
                    ELSE {cell[1]}
SplitRows(r, split) ==
    IF split = "train" THEN (IF training_args.do_train THEN csv.train ELSE <<>>)
    ELSE IF split = "eval" THEN (IF training_args.do_eval THEN csv.val ELSE <<>>)
    ELSE (IF training_args.do_predict THEN csv.test ELSE <<>>)
MappedAt(split) == IF split = "train" THEN "map_train"
                   ELSE IF split = "eval" THEN "map_eval" ELSE "map_predict"

\* The loaded registry is a bijection between its names and its ids.
WellFormed(r) ==
    LET l2i == label_dict[r].label2id
        i2l == label_dict[r].id2label
    IN /\ \A n \in DOMAIN l2i : l2i[n] \in DOMAIN i2l /\ i2l[l2i[n]] = n
       /\ \A i \in DOMAIN i2l : i2l[i] \in DOMAIN l2i /\ l2i[i2l[i]] = i

\* C1: in single-label and in multi-label mode, a split with a row whose label
\* field holds a name that is not in the registry is never encoded: mapping it
\* raises, so no rank gets past the split's map with such a row (stated for the
\* registries that are bijections).
C1_UnknownLabelRaises ==
    \A r \in Live : \A split \in {"train", "eval", "predict"} :
        (Past(r, MappedAt(split)) /\ WellFormed(r)) =>
            \A i \in DOMAIN SplitRows(r, split) :
                FieldNames(SplitRows(r, split)[i]) \subseteq Registry(r)

\* C2 as stated: a rank that leaves "start" with the output directory populated,
\* do_train set and overwrite_output_dir unset fails there, whatever the
\* directory holds.
C2_PopulatedAlwaysRaises ==
    [][\A r \in Ranks :
          (/\ pc[r] = "start" /\ pc'[r] # "start"
           /\ output_dir.exists /\ output_dir.entries # {}
           /\ training_args.do_train /\ ~training_args.overwrite_output_dir)
          => pc'[r] = "failed"]_vars

\* C2, amended: with the output directory populated, do_train set and
\* overwrite_output_dir unset, the rank raises ValueError at its first block,
\* with no dataset, registry or model loaded, when the directory holds no
\* checkpoint-<n> entry; when it holds one the rank raises nothing and goes on
\* with last_checkpoint set to the entry of the largest n.
HasCheckpoint(entries) == \E i \in DOMAIN Checkpoints : Checkpoints[i] \in entries
C2_PopulatedRaisesUnlessCheckpoint ==
    [][\A r \in Ranks :
          (/\ pc[r] = "start" /\ pc'[r] # "start"
           /\ output_dir.exists /\ output_dir.entries # {}
           /\ training_args.do_train /\ ~training_args.overwrite_output_dir)
          => IF HasCheckpoint(output_dir.entries)
             THEN /\ pc'[r] = "load_data"
                  /\ raised'[r] = None
                  /\ last_checkpoint'[r] \in output_dir.entries
                  /\ \A i \in DOMAIN Checkpoints :
                        Checkpoints[i] \in output_dir.entries =>
                            \E j \in i..Len(Checkpoints) :
                                last_checkpoint'[r] = Checkpoints[j]
             ELSE /\ pc'[r] = "failed"
                  /\ raised'[r] = "ValueError"
                  /\ ~model'[r].loaded
                  /\ datasets'[r] = [train |-> <<>>, eval |-> <<>>, predict |-> <<>>]
                  /\ label_list'[r] = <<>>
                  /\ phases'[r] = <<>>]_vars
\* A rank that raised at its first block over a populated directory, and in the
\* same launch nothing was loaded.
C2_Witness ==
    \E r \in Live :
        /\ pc[r] = "failed" /\ raised[r] = "ValueError"
        /\ ~model[r].loaded /\ phases[r] = <<>>
        /\ "train.log" \in output_dir.entries
        /\ ~HasCheckpoint(output_dir.entries)

\* C3: only a rank for which is_world_process_zero holds opens predictions.txt
\* or prediction_report.txt; across the ranks of a launch each file has at most
\* one writer; a file that is there or has content was opened by that rank; and
\* once that rank is through its prediction phase it has opened both.
C3_SingleWriter ==
    /\ \A r \in opened.predictions \cup opened.report : r \in Live /\ r = 0
    /\ Cardinality(opened.predictions) <= 1
    /\ Cardinality(opened.report) <= 1
    /\ (predictions_txt # <<>> \/ "predictions.txt" \in output_dir.entries)
          => opened.predictions = {0}
    /\ (prediction_report_txt # NoReport \/ "prediction_report.txt" \in output_dir.entries)
          => opened.report = {0}
    /\ (pc[0] = "done" /\ training_args.do_predict)
          => opened.predictions = {0} /\ opened.report = {0}
\* Two ranks are through the prediction phase and only rank 0 wrote.
C3_Witness ==
    /\ world_size >= 2
    /\ \A r \in Live : pc[r] = "done"
    /\ training_args.do_predict
    /\ opened = [predictions |-> {0}, report |-> {0}]
    /\ Len(predictions_txt) >= 2

\* C4: in multi-label mode every encoded target is a vector of num_labels
\* entries whose i-th entry is 1 exactly when the i-th name of label_list (the
\* registry in file order) is in the row's parsed list (stated for the
\* registries that are bijections).
C4_InsertionOrder ==
    \A r \in Live :
        (Multi /\ training_args.do_predict /\ Past(r, "map_predict") /\ WellFormed(r)) =>
            \A i \in DOMAIN datasets[r].predict :
                LET v == datasets[r].predict[i]
                    S == Range(EvalList(csv.test[i]))
                IN /\ Len(v) = Len(label_list[r])
                   /\ \A j \in DOMAIN v : (v[j] = 1) <=> (label_list[r][j] \in S)

Predicted(r) == "predict" \in Range(phases[r])
Threshold == model_args.prediction_threshold
TestRows == DOMAIN csv.test
\* The gold and the predicted decision of the pair (example i, label column j).
GoldBit(r, i, j) == datasets[r].predict[i][j] = 1
PredBit(i, j) == model_output.predict[i][j] > Threshold
Columns(r) == 1..Len(label_list[r])
Pairs(r) == TestRows \X Columns(r)

\* C5 as stated: in multi-label mode the accuracy compute_metrics returns is
\* the fraction of (example, label) pairs whose predicted boolean equals the
\* gold boolean.
C5_AccuracyPerPair ==
    \A r \in Live :
        (Multi /\ Predicted(r)) =>
            LET acc == metrics[r].predict.accuracy
                same == {ij \in Pairs(r) : GoldBit(r, ij[1], ij[2]) = PredBit(ij[1], ij[2])}
            IN acc[1] * Cardinality(Pairs(r)) = acc[2] * Cardinality(same)

\* C5, amended: in multi-label mode gold is reduced by equality to 1 and the
\* scores by the threshold, per label; accuracy is the fraction of examples
\* whose whole predicted vector equals the gold vector; and, with two or more
\* labels, the support-weighted recall is the fraction of gold-positive
\* (example, label) pairs that are predicted positive.
C5_SubsetAccuracy ==
    \A r \in Live :
        (Multi /\ Predicted(r)) =>
            LET acc == metrics[r].predict.accuracy
                rec == metrics[r].predict.recall
                exact == {i \in TestRows :
                             \A j \in Columns(r) : GoldBit(r, i, j) = PredBit(i, j)}
                gold == {ij \in Pairs(r) : GoldBit(r, ij[1], ij[2])}
                hit == {ij \in gold : PredBit(ij[1], ij[2])}
            IN /\ \A i \in TestRows : \A j \in Columns(r) :
                      /\ labels[r][i][j] = GoldBit(r, i, j)
                      /\ preds[r][i][j] = PredBit(i, j)
               /\ acc[2] > 0
               /\ acc[1] * Cardinality(TestRows) = acc[2] * Cardinality(exact)
               /\ Len(label_list[r]) >= 2 =>
                      rec[1] * Cardinality(gold) = rec[2] * Cardinality(hit)
\* Two labels, two examples, one of them right in one label only: per pair 3 of
\* 4 decisions are right, per example 1 of 2.
C5_Witness ==
    /\ Multi /\ Predicted(0)
    /\ Len(label_list[0]) = 2 /\ Len(csv.test) = 2
    /\ Cardinality({ij \in Pairs(0) :
                       GoldBit(0, ij[1], ij[2]) = PredBit(ij[1], ij[2])}) = 3
    /\ metrics[0].predict.accuracy = <<1, 2>>

\* C6: once the registry is loaded, every name maps to an id that id2label maps
\* back to the name, and the two maps are inverse bijections.
C6_RegistryBijection ==
    \A r \in Live :
        Past(r, "labels") =>
            WellFormed(r)

\* C7: in multi-label mode, for a row whose list holds only registry names
\* (any subset, the empty one too), the encoded target has num_labels entries,
\* and decoding it gives each name of the list once and nothing else; the
\* empty list encodes to all zeros and decodes to the empty tuple; and when the
\* model predicts exactly the gold vector, the row of predictions.txt prints
\* the names of the list.
C7_MultiRoundTrip ==
    \A r \in Live :
        (Multi /\ training_args.do_predict /\ Past(r, "map_predict")) =>
            \A i \in TestRows :
                LET S == Range(EvalList(csv.test[i]))
                    v == datasets[r].predict[i]
                    back == MlbInverseTransform(mlb[r], labels_to_bools(<<v>>)[1])
                IN S \subseteq Registry(r) =>
                      /\ Len(v) = Len(label_list[r])
                      /\ Range(back) = S
                      /\ Len(back) = Cardinality(S)
                      /\ S = {} => (\A j \in DOMAIN v : v[j] = 0) /\ back = <<>>
                      /\ (pc[r] = "done" /\ r = 0 /\ preds[r][i] = labels[r][i])
                            => predictions_txt[i + 1][2] = PrintTuple(SortedNames(S))
\* A registry written out of alphabetical order, a row naming both labels the
\* other way round, and a row predicted as its gold.
C7_Witness ==
    /\ Multi /\ pc[0] = "done"
    /\ label_list[0] = <<Alphabet[2], Alphabet[1]>>
    /\ csv.test[1] = PrintList(<<Alphabet[2], Alphabet[1]>>)
    /\ preds[0][1] = labels[0][1]
    /\ predictions_txt[2][2] = PrintTuple(<<Alphabet[1], Alphabet[2]>>)

\* C8: in multi-label mode each score is classified on its own: a score equal
\* to the threshold or below it is False, a score above it is True; and the
\* metrics of the prediction phase are those of the same booleans the files
\* are written from.
C8_StrictThreshold ==
    \A r \in Live :
        (Multi /\ Predicted(r)) =>
            /\ \A i \in TestRows : \A j \in Columns(r) :
                  LET sc == model_output.predict[i][j]
                  IN /\ sc = Threshold => ~preds[r][i][j]
                     /\ sc < Threshold => ~preds[r][i][j]
                     /\ sc > Threshold => preds[r][i][j]
            /\ LET acc == metrics[r].predict.accuracy
                   exact == {i \in TestRows : preds[r][i] = labels[r][i]}
               IN acc[1] * Cardinality(TestRows) = acc[2] * Cardinality(exact)
\* One score at the threshold and one a unit above it, in the same run.
C8_Witness ==
    /\ Multi /\ Predicted(0) /\ Threshold = 1
    /\ \E i \in TestRows : \E j, k \in Columns(0) :
          /\ model_output.predict[i][j] = Threshold /\ ~preds[0][i][j]
          /\ model_output.predict[i][k] = Threshold + 1 /\ preds[0][i][k]

\* The class id np.argmax gives for test row i: the first column of the
\* largest score, counted from 0.
IsArgMax(i, id) ==
    LET row == model_output.predict[i]
    IN /\ id + 1 \in DOMAIN row
       /\ \A k \in DOMAIN row : row[k] <= row[id + 1]
       /\ \A k \in 1..id : row[k] < row[id + 1]
\* The names predicted for test row i in multi-label mode.
PredictedNames(r, i) == {mlb[r][j] : j \in {k \in DOMAIN mlb[r] : PredBit(i, k)}}

\* C9 as stated: the finished predictions file is the header and then one row
\* per example, in order, numbered from 0; the prediction field is the decoded
\* label name in single-label mode and the printed names in multi-label mode.
C9_RowIsLabelName ==
    (pc[0] = "done" /\ training_args.do_predict) =>
        /\ Len(predictions_txt) = Len(csv.test) + 1
        /\ predictions_txt[1] = Header
        /\ \A i \in TestRows :
              /\ predictions_txt[i + 1][1] = ToString(i - 1)
              /\ IF Multi
                 THEN predictions_txt[i + 1][2] \in
                          {PrintTuple(SortedNames(PredictedNames(0, i))),
                           PrintList(SortedNames(PredictedNames(0, i)))}
                 ELSE \E id \in DOMAIN label_dict[0].id2label :
                          /\ IsArgMax(i, id)
                          /\ predictions_txt[i + 1][2] = <<label_dict[0].id2label[id]>>

\* C9, amended: the predictions file is the header and then one row per
\* example, in order, numbered from 0; the prediction field is the printed
\* one-element list of the decoded label name (the id2label name of the
\* arg-max class id) in single-label mode and the printed tuple of the decoded
\* names in multi-label mode.  The rows are written in order: the file holds
\* all of them once the writer is through, and the rows before the first class
\* id that id2label lacks when the writer raised there.
C9_RowIsPrintedList ==
    opened.predictions # {} =>
        /\ predictions_txt[1] = Header
        /\ Len(predictions_txt) <= Len(csv.test) + 1
        /\ pc[0] = "done" => Len(predictions_txt) = Len(csv.test) + 1
        /\ Len(predictions_txt) < Len(csv.test) + 1 =>
              /\ Single /\ raised[0] = "KeyError"
              /\ \A id \in DOMAIN label_dict[0].id2label :
                    ~IsArgMax(Len(predictions_txt), id)
        /\ \A i \in 1..(Len(predictions_txt) - 1) :
              /\ predictions_txt[i + 1][1] = ToString(i - 1)
              /\ IF Multi
                 THEN predictions_txt[i + 1][2] =
                          PrintTuple(SortedNames(PredictedNames(0, i)))
                 ELSE \E id \in DOMAIN label_dict[0].id2label :
                          /\ IsArgMax(i, id)
                          /\ predictions_txt[i + 1][2] =
                                 PrintList(<<label_dict[0].id2label[id]>>)
\* A finished single-label file of two rows with different predictions.
C9_Witness ==
    /\ Single /\ pc[0] = "done"
    /\ Len(predictions_txt) = 3
    /\ predictions_txt[2] = <<"0", PrintList(<<Alphabet[2]>>)>>
    /\ predictions_txt[3] = <<"1", PrintList(<<Alphabet[1]>>)>>

\* The one-vs-rest table of label name n over the test rows, from the names
\* the rows hold and the names predicted for them.
GoldNames(i) == FieldNames(csv.test[i])
OneVsRest(T, P) ==
    <<<<Cardinality(TestRows \ (T \cup P)), Cardinality(P \ T)>>,
      <<Cardinality(T \ P), Cardinality(T \cap P)>>>>

\* C10: in the finished report, single-label mode writes one confusion matrix
\* over the classes, multi-label mode one 2x2 one-vs-rest matrix per registry
\* label; the name printed above a matrix (single-label: above a row of the
\* matrix) and on a class row of the classification report is the name of the
\* label whose decisions it counts (stated for the registries that are
\* bijections; a name's class is its label2id id).
C10_NamesMatchMatrices ==
    (pc[0] = "done" /\ training_args.do_predict /\ WellFormed(0)) =>
        LET ms == prediction_report_txt.matrices
            rep == prediction_report_txt.report
        IN /\ Len(ms) = Len(label_list[0])
           /\ \A k \in DOMAIN ms :
                 LET n == ms[k].name
                     T == {i \in TestRows : n \in GoldNames(i)}
                     P == {i \in TestRows :
                              IF Multi THEN n \in PredictedNames(0, i)
                              ELSE IsArgMax(i, label_dict[0].label2id[n])}
                 IN /\ rep[k].name = n
                    /\ rep[k].support = Cardinality(T)
                    /\ IF Multi
                       THEN ms[k].matrix = OneVsRest(T, P)
                       ELSE /\ Len(ms[k].matrix) = Len(ms)
                            /\ SumOver(ms[k].matrix, DOMAIN ms[k].matrix) = Cardinality(T)
                            /\ ms[k].matrix[k] = Cardinality(T \cap P)

IsPrefix(s, t) == Len(s) <= Len(t) /\ \A i \in DOMAIN s : s[i] = t[i]
\* The phases the flags ask of a rank, in the pipeline's order; the writers
\* run at the end of the predict phase of the coordinating process.
ExpectedPhases(r) ==
    (IF training_args.do_train THEN <<"train">> ELSE <<>>)
    \o (IF training_args.do_eval THEN <<"eval">> ELSE <<>>)
    \o (IF training_args.do_predict THEN <<"predict">> ELSE <<>>)
    \o (IF training_args.do_predict /\ r = 0 THEN <<"write">> ELSE <<>>)
\* The checkpoint the startup check detects in the output directory.
Detected ==
    IF output_dir.exists /\ ~training_args.overwrite_output_dir
       /\ HasCheckpoint(output_dir.entries)
    THEN IF "checkpoint-2" \in output_dir.entries THEN "checkpoint-2"
         ELSE "checkpoint-1"
    ELSE None
RegistryOf(r) == <<label_dict[r], label_list[r], mlb[r]>>
FilesWritten == <<predictions_txt, prediction_report_txt, opened>>

C11_Phases ==
    \A r \in Live :
        /\ IsPrefix(phases[r], ExpectedPhases(r))
        /\ pc[r] = "done" => phases[r] = ExpectedPhases(r)
        /\ phases[r] # <<>> =>
              /\ pc[r] # "failed" => Past(r, "map_predict")
              /\ label_list[r] = LoadLabelList(labels_json)
        /\ (\E i \in DOMAIN phases[r] : phases[r][i] = "train") =>
              checkpoint[r] =
                 IF training_args.resume_from_checkpoint # None
                 THEN training_args.resume_from_checkpoint
                 ELSE Detected
C11_Step ==
    /\ FilesWritten' # FilesWritten =>
          /\ training_args.do_predict
          /\ predictions_txt = <<>> /\ prediction_report_txt = NoReport
          /\ opened = [predictions |-> {}, report |-> {}]
          /\ \E r \in Live :
                /\ pc[r] = "write" /\ pc'[r] \in {"done", "failed"}
                /\ phases[r][Len(phases[r])] = "predict"
                /\ preds[r] # <<>>
    /\ \A r \in Ranks :
           \* the registry and the encoder are built in the one labels block
           /\ RegistryOf(r)' # RegistryOf(r) => pc[r] = "labels" /\ pc'[r] = "model"
           \* a block is never entered twice
           /\ pc'[r] # pc[r] => (pc'[r] = "failed" \/ StageNo(pc'[r]) > StageNo(pc[r]))
           \* a split is encoded with the registry already built
           /\ (pc[r] \in {"map_train", "map_eval", "map_predict"} /\ pc'[r] # pc[r]) =>
                 /\ Past(r, "labels")
                 /\ RegistryOf(r)' = RegistryOf(r)
                 /\ label_list[r] = LoadLabelList(labels_json)
           \* one phase at a time, none repeated
           /\ phases'[r] # phases[r] =>
                 /\ Len(phases'[r]) = Len(phases[r]) + 1
                 /\ \A i \in DOMAIN phases[r] : phases[r][i] # phases'[r][Len(phases'[r])]

\* C11: a run is a sequential pipeline driven by the do_train / do_eval /
\* do_predict flags alone: the label registry and the binarizer are built once,
\* before any split is preprocessed; the phases train, evaluate, predict occur
\* in that order, an enabled phase once (in a run that gets through) and a
\* disabled one never; training starts from resume_from_checkpoint when it is
\* set, else from the last checkpoint detected, else from scratch; and the
\* predictions and report files are written at most once a run, inside the
\* predict phase, after trainer.predict has returned.
C11_SequentialPipeline == []C11_Phases /\ [][C11_Step]_vars
\* Two ranks, all three phases enabled, training resumed from the detected
\* checkpoint, both files written, every rank through.
C11_Witness ==
    /\ world_size = 2
    /\ \A r \in Live : pc[r] = "done"
    /\ training_args.do_train /\ training_args.do_eval /\ training_args.do_predict
    /\ training_args.resume_from_checkpoint = None
    /\ checkpoint[0] = "checkpoint-2" /\ checkpoint[1] = "checkpoint-2"
    /\ phases[0] = <<"train", "eval", "predict", "write">>
    /\ phases[1] = <<"train", "eval", "predict">>
    /\ predictions_txt # <<>> /\ prediction_report_txt # NoReport

====
